---- MODULE Spec2Model ----
(***************************************************************************)
(* Model of the cr browser wrapper.                                        *)
(*                                                                         *)
(* Two versions of the wrapper are in the repository:                      *)
(*   - src/cr.go: the handle carries a timeout; FindElement is a single    *)
(*     GetNodes call under a per-call deadline; GetTopLeft returns         *)
(*     float64 coordinates;                                                *)
(*   - src/unnamed/part_000: FindElement polls GetNodes with a growing     *)
(*     wait; element operations call FindElement first; GetTopLeft         *)
(*     returns int64 coordinates; ClickNode retries.                       *)
(*                                                                         *)
(* Three specifications:                                                   *)
(*   Spec      the life of a cr.go handle (New, SetTimeout, Close, the     *)
(*             operations and the context each driver call runs under);    *)
(*   SpecPoll  the control flow of the operations, one driver call per     *)
(*             step, in both versions;                                     *)
(*   SpecParse the coordinate parsing of GetTopLeft and its use by         *)
(*             ClickByXY, in both versions.                                *)
(* The wrapped driver is the environment: the outcome of a driver call is  *)
(* drawn from the outcomes the call can have.                              *)
(***************************************************************************)
EXTENDS Integers, Sequences, FiniteSets, TLC

VARIABLES
    \* ---- the cr.go handle (Spec)
    phase,      \* "none" before New, "open", "failed" (New returned an error), "closed"
    timeout,    \* b.timeout, in milliseconds
    now,        \* the clock, in milliseconds
    deadline,   \* the deadline of the context New creates with WithTimeout
    cancelled,  \* the contexts whose cancel function has been called
    lastCall,   \* the last driver call: who made it, under which context, how it ended
    requested,  \* the duration last passed to SetTimeout
    \* ---- the control flow of the operations (SpecPoll)
    version,    \* "poll" (part_000) or "cr" (cr.go)
    inv,        \* the public operation in progress
    fe,         \* the locals of the FindElement call in progress
    obs,        \* what the current FindElement call has done so far
    cn,         \* the locals of ClickNode
    \* ---- coordinate parsing (SpecParse)
    result,     \* the string the injected script produced
    evalErr,    \* whether cdp.Evaluate returned an error
    gtl,        \* what GetTopLeft returned
    click,      \* the MouseClickXY call ClickByXY issued, if any
    ppc         \* position in ClickByXY: "eval", "parsed", "done"

hvars == <<phase, timeout, now, deadline, cancelled, lastCall, requested>>
pvars == <<version, inv, fe, obs, cn>>
svars == <<result, evalErr, gtl, click, ppc>>
vars == <<hvars, pvars, svars>>

(***************************************************************************)
(* Time.  Durations are in milliseconds.                                   *)
(***************************************************************************)
Millisecond == 1
Second == 1000 * Millisecond

\* cr.go:20
minTimeout == Second

\* cr.go:34, the timeout a new handle starts with
defaultTimeout == 5 * Second

\* The clock advances in steps of one second, at most MaxTicks times.
MaxTicks == 7

\* SetTimeout is called with a multiple of half a second, from -1s to MaxTimeoutHalves/2 s.
MaxTimeoutHalves == 6

Durations == {k * 500 * Millisecond : k \in -2 .. MaxTimeoutHalves}

Min(a, b) == IF a < b THEN a ELSE b

(***************************************************************************)
(* The contexts of New (cr.go:35-49): ctx is the root, allocCtx its child, *)
(* taskCtx the child of allocCtx.  A context is done when it or an         *)
(* ancestor was cancelled, or when the root's deadline has passed.         *)
(***************************************************************************)
Ancestors(c) ==
    CASE c = "ctx" -> {"ctx"}
      [] c = "allocCtx" -> {"ctx", "allocCtx"}
      [] c = "taskCtx" -> {"ctx", "allocCtx", "taskCtx"}

Done(c, cancelledSet, dl, t) ==
    \/ Ancestors(c) \cap cancelledSet # {}
    \/ t >= dl

\* The context b.ctx of an open handle is taskCtx (cr.go:56).
CtxDone == Done("taskCtx", cancelled, deadline, now)

NoCall ==
    [op |-> "none", wrapped |-> FALSE, budget |-> 0, at |-> 0, until |-> 0, err |-> FALSE,
     tmo |-> 0]

NeverSet == [set |-> FALSE, d |-> 0]

\* The cancel functions New has called by the time it returns, given whether
\* cdp.Run(taskCtx) succeeded: the two deferred ones (cr.go:45, 49) and, on
\* failure, cancel (cr.go:53).
NewCancels(runOK) ==
    IF runOK THEN {"allocCtx", "taskCtx"} ELSE {"ctx", "allocCtx", "taskCtx"}

\* cr.go:33-61
New ==
    /\ phase = "none"
    /\ \E runOK \in BOOLEAN :
          /\ timeout' = defaultTimeout
          /\ deadline' = now + defaultTimeout
          /\ cancelled' = NewCancels(runOK)
          /\ phase' = IF runOK THEN "open" ELSE "failed"
    /\ UNCHANGED <<now, lastCall, requested>>

\* SetTimeout without its floor.
ClampTimeoutNoFloor(d) == d

\* cr.go:65-70, the value SetTimeout stores
ClampTimeout(d) == IF d < minTimeout THEN minTimeout ELSE d

\* cr.go:65-70.  New returns b also on failure, so SetTimeout can be called then.
SetTimeout ==
    /\ phase # "none"
    /\ \E d \in Durations :
          /\ timeout' = ClampTimeout(d)
          /\ requested' = [set |-> TRUE, d |-> d]
    /\ UNCHANGED <<phase, now, deadline, cancelled, lastCall>>

\* cr.go:74-77.  b.cancelCtx is set only when New succeeded (cr.go:58).
Close ==
    /\ phase \in {"open", "closed"}
    /\ cancelled' = cancelled \cup {"ctx"}
    /\ phase' = "closed"
    /\ UNCHANGED <<timeout, now, deadline, lastCall, requested>>

Tick ==
    /\ now < MaxTicks * Second
    /\ now' = now + Second
    /\ UNCHANGED <<phase, timeout, deadline, cancelled, lastCall, requested>>

(***************************************************************************)
(* Driver calls.  A call under a context that is done returns an error; a  *)
(* call under a live context returns what the browser makes it return.     *)
(***************************************************************************)
\* The operations that make one cdp.Run call on b.ctx.
DirectOps ==
    {"RunAction", "RunTasks", "RunTaskWithOther", "Navigate", "Location", "SendKeys",
     "Click", "GetSource", "GetAttributes", "GetTopLeft", "ElementScreenshot", "Screenshot"}

\* The operations whose driver call is the one of GetNodes.
NodeOps == {"GetNodes", "FindElement"}

\* Whether cdp.Run may return nil / must return an error under a context in this state.
RunErrs(isDone) == IF isDone THEN {TRUE} ELSE {TRUE, FALSE}

\* cr.go:81, 86, 92, 116, 128, 141, 148, 158, 166, 189, 199: cdp.Run(b.ctx, ...).
\* The call runs under b.ctx itself: no deadline of its own, the one of New's ctx.
RunOnHandle(name, t, err) ==
    [op |-> name, wrapped |-> FALSE, budget |-> 0, at |-> t, until |-> deadline, err |-> err]

\* GetNodes running on b.ctx itself, like the other operations.
RunGetNodesOnHandle(name, t, d, err) == RunOnHandle(name, t, err)

\* cr.go:218-220: ctx := WithTimeout(b.ctx, b.timeout); cdp.Run(ctx, ...).
\* A child context never outlives its parent's deadline.
RunGetNodes(name, t, d, err) ==
    [op |-> name, wrapped |-> TRUE, budget |-> d, at |-> t,
     until |-> Min(deadline, t + d), err |-> err]

Direct ==
    /\ phase \in {"open", "closed"}
    /\ \E name \in DirectOps, err \in RunErrs(CtxDone) :
          lastCall' = [tmo |-> timeout] @@ RunOnHandle(name, now, err)
    /\ UNCHANGED <<phase, timeout, now, deadline, cancelled, requested>>

\* cr.go:204-222: FindElement and GetNodes
Nodes ==
    /\ phase \in {"open", "closed"}
    /\ \E name \in NodeOps, err \in RunErrs(CtxDone) :
          lastCall' = [tmo |-> timeout] @@ RunGetNodes(name, now, timeout, err)
    /\ UNCHANGED <<phase, timeout, now, deadline, cancelled, requested>>

\* cr.go:153-159: GetTopLeft's call, then MouseClickXY unless GetTopLeft failed
ClickByXYCalls ==
    /\ phase \in {"open", "closed"}
    /\ \E err1 \in RunErrs(CtxDone) :
          IF err1
             THEN lastCall' = [tmo |-> timeout] @@ RunOnHandle("GetTopLeft", now, TRUE)
             ELSE \E err2 \in RunErrs(CtxDone) :
                     lastCall' = [tmo |-> timeout] @@ RunOnHandle("ClickByXY", now, err2)
    /\ UNCHANGED <<phase, timeout, now, deadline, cancelled, requested>>

HInit ==
    /\ phase = "none"
    /\ timeout = 0
    /\ now = 0
    /\ deadline = 0
    /\ cancelled = {}
    /\ lastCall = NoCall
    /\ requested = NeverSet

PIdle ==
    /\ version = "cr"
    /\ inv = [op |-> "idle"]
    /\ fe = [ret |-> "none"]
    /\ obs = [lookups |-> 0]
    /\ cn = [i |-> 0]

SIdle ==
    /\ result = <<>>
    /\ evalErr = FALSE
    /\ gtl = [err |-> "none"]
    /\ click = <<>>
    /\ ppc = "idle"

Init == HInit /\ PIdle /\ SIdle

Next ==
    \/ New /\ UNCHANGED <<pvars, svars>>
    \/ SetTimeout /\ UNCHANGED <<pvars, svars>>
    \/ Close /\ UNCHANGED <<pvars, svars>>
    \/ Tick /\ UNCHANGED <<pvars, svars>>
    \/ Direct /\ UNCHANGED <<pvars, svars>>
    \/ Nodes /\ UNCHANGED <<pvars, svars>>
    \/ ClickByXYCalls /\ UNCHANGED <<pvars, svars>>

Spec == Init /\ [][Next]_vars

(***************************************************************************)
(* The control flow of the operations (SpecPoll), one driver call a step.  *)
(* version = "poll" is src/unnamed/part_000, version = "cr" is src/cr.go.  *)
(* The handle is taken to be usable: the outcome of every driver call is   *)
(* the browser's to choose.                                                *)
(***************************************************************************)

\* part_000:185, the attempts of one FindElement call
MaxAttempts == 8

\* part_000:183, the first wait, in milliseconds
InitialWait == 100

\* part_000:149, the attempts of one ClickNode call
ClickNodeAttempts == 5

\* GetNodes returns at most MaxNodes nodes.
MaxNodes == 2

XPaths == {"//a", "//b"}

\* What a node lookup (cdp.Nodes) can do: return an error, no node, or nodes.
LookupOutcomes == {"err", "zero", "nodes"}

\* The operations that call FindElement before acting (part_000:70-128).
Gated == {"SendKeys", "Click", "GetAttributes", "GetTopLeft", "ClickByXY"}

\* The operations that are one driver call in both versions.
Plain == {"Navigate", "Location", "GetSource"}

Ops(v) ==
    IF v = "poll"
       THEN Gated \cup Plain \cup {"FindElement", "ClickNode"}
       ELSE Gated \cup Plain \cup {"FindElement"}

\* The locals of FindElement at its entry (part_000:183-185).
FindElementStart == [i |-> 0, wait |-> InitialWait, ret |-> "none"]

ObsStart(x) ==
    [xpath |-> x, lookups |-> 0, slept |-> 0, lastWait |-> 0, foundAt |-> 0, errs |-> 0]

\* A loop body that gives up on the first lookup error.
FindElementIterErrReturns(st, outcome) ==
    CASE outcome = "err" -> [st EXCEPT !.ret = "err"]
      [] outcome = "nodes" -> [st EXCEPT !.ret = "nil"]
      [] outcome = "zero" -> [st EXCEPT !.wait = @ * 2, !.i = @ + 1]

\* A loop body that does not stop when nodes were found.
FindElementIterNoStop(st, outcome) ==
    CASE outcome = "err" -> [st EXCEPT !.i = @ + 1]
      [] outcome = "nodes" -> [st EXCEPT !.wait = @ * 2, !.i = @ + 1]
      [] outcome = "zero" -> [st EXCEPT !.wait = @ * 2, !.i = @ + 1]

\* part_000:189-198, the loop body after the sleep, given what GetNodes did:
\* an error continues without doubling the wait, nodes return nil, no node
\* doubles the wait; i++ on both continuations.
FindElementIter(st, outcome) ==
    CASE outcome = "err" -> [st EXCEPT !.i = @ + 1]
      [] outcome = "nodes" -> [st EXCEPT !.ret = "nil"]
      [] outcome = "zero" -> [st EXCEPT !.wait = @ * 2, !.i = @ + 1]

\* part_000:185, 200: the loop ends after MaxAttempts iterations with ErrNotFound.
FindElementExit(st) ==
    IF st.ret = "none" /\ st.i >= MaxAttempts THEN [st EXCEPT !.ret = "ErrNotFound"] ELSE st

\* cr.go:204-213: one GetNodes call decides.
FindElementOnce(st, outcome) ==
    [st EXCEPT !.i = @ + 1,
               !.ret = CASE outcome = "err" -> "err"
                         [] outcome = "nodes" -> "nil"
                         [] outcome = "zero" -> "ErrNotFound"]

\* Where an operation starts.
Entry(v, o) ==
    CASE o \in Plain -> "act"
      [] o \in {"FindElement", "ClickNode"} -> "find"
      [] o \in Gated /\ v = "poll" -> "find"
      [] o \in {"SendKeys", "Click", "GetAttributes"} /\ v = "cr" -> "act"
      [] o \in {"GetTopLeft", "ClickByXY"} /\ v = "cr" -> "eval"

Invocation(v, o, x) ==
    [op |-> o, xpath |-> x, pc |-> Entry(v, o), finds |-> 0, actions |-> 0,
     failed |-> FALSE, late |-> FALSE, ret |-> "none"]

NoInvocation ==
    [op |-> "idle", xpath |-> "//a", pc |-> "idle", finds |-> 0, actions |-> 0,
     failed |-> FALSE, late |-> FALSE, ret |-> "none"]

CnStart == [i |-> 0, err |-> "nil", left |-> 0]

Start ==
    /\ inv.pc \in {"idle", "done"}
    /\ \E o \in Ops(version), x \in XPaths :
          /\ inv' = Invocation(version, o, x)
          /\ obs' = ObsStart(x)
    /\ fe' = FindElementStart
    /\ cn' = CnStart
    /\ UNCHANGED version

\* One iteration of FindElement: the sleep and the GetNodes call
\* (part_000:186-198; cr.go:205).
Lookup ==
    /\ inv.pc = "find"
    /\ fe.ret = "none"
    /\ \E outcome \in LookupOutcomes :
          /\ fe' = IF version = "poll"
                      THEN FindElementExit(FindElementIter(fe, outcome))
                      ELSE FindElementOnce(fe, outcome)
          /\ obs' = [obs EXCEPT !.lookups = @ + 1,
                                !.slept = @ + (IF version = "poll" THEN fe.wait ELSE 0),
                                !.lastWait = IF version = "poll" THEN fe.wait ELSE 0,
                                !.foundAt = IF outcome = "nodes" THEN obs.lookups + 1 ELSE @,
                                !.errs = @ + (IF outcome = "err" THEN 1 ELSE 0)]
          /\ inv' = [inv EXCEPT !.late = @ \/ inv.failed]
    /\ UNCHANGED <<version, cn>>

\* An operation that acts whatever FindElement returned.
AfterFindUngated(o, r, finds) ==
    CASE o \in {"SendKeys", "Click", "GetAttributes"} -> "act"
      [] o = "GetTopLeft" -> "eval"
      [] o = "ClickByXY" -> IF finds <= 1 THEN "find" ELSE "eval"
      [] o = "FindElement" -> "done"
      [] o = "ClickNode" -> "nodes"

\* Where the caller goes when FindElement returned r, finds counting the calls
\* that returned nil so far (part_000:72-75, 80-83, 96-99, 105-111, 122-128, 151).
AfterFind(o, r, finds) ==
    IF r # "nil" THEN "done"
    ELSE CASE o \in {"SendKeys", "Click", "GetAttributes"} -> "act"
           [] o = "GetTopLeft" -> "eval"
           [] o = "ClickByXY" -> IF finds <= 1 THEN "find" ELSE "eval"
           [] o = "FindElement" -> "done"
           [] o = "ClickNode" -> "nodes"

\* part_000:149-177: an iteration of ClickNode ended with `continue` and err = e.
ClickNodeContinue(e) ==
    LET i1 == cn.i + 1 IN
    /\ cn' = [cn EXCEPT !.i = i1, !.err = e]
    /\ IF i1 >= ClickNodeAttempts
          THEN /\ inv' = [inv EXCEPT !.pc = "done", !.ret = e]
               /\ UNCHANGED <<fe, obs>>
          ELSE /\ inv' = [inv EXCEPT !.pc = "find"]
               /\ fe' = FindElementStart
               /\ obs' = ObsStart(inv.xpath)

\* FindElement returns to its caller.
FindReturn ==
    /\ inv.pc = "find"
    /\ fe.ret # "none"
    /\ IF inv.op = "ClickNode" /\ fe.ret # "nil"
          THEN ClickNodeContinue(fe.ret)
          ELSE LET finds1 == inv.finds + (IF fe.ret = "nil" THEN 1 ELSE 0)
                   next == AfterFind(inv.op, fe.ret, finds1)
               IN /\ inv' = [inv EXCEPT !.finds = finds1, !.pc = next,
                                        !.ret = IF next = "done" THEN fe.ret ELSE @]
                  /\ IF next = "find"
                        THEN fe' = FindElementStart /\ obs' = ObsStart(inv.xpath)
                        ELSE UNCHANGED <<fe, obs>>
                  /\ UNCHANGED cn
    /\ UNCHANGED version

\* The one driver call of Navigate, Location, GetSource, SendKeys, Click and
\* GetAttributes (part_000:60, 66, 75, 83, 89, 99; cr.go:97, 110, 116, 128, 141, 148).
Act ==
    /\ inv.pc = "act"
    /\ \E ok \in BOOLEAN :
          inv' = [inv EXCEPT !.pc = "done", !.actions = @ + 1, !.failed = ~ok,
                             !.ret = IF ok THEN "nil" ELSE "err"]
    /\ UNCHANGED <<version, fe, obs, cn>>

\* GetTopLeft's cdp.Evaluate and the parsing of its result (part_000:126-143;
\* cr.go:164-180): it ends with a nil error, the error of Evaluate or a parse error.
\* ClickByXY goes on to the mouse click only on nil (part_000:111-116; cr.go:154-158).
Eval ==
    /\ inv.pc = "eval"
    /\ \E e \in {"nil", "err", "parseErr"} :
          inv' = [inv EXCEPT !.actions = @ + 1,
                             !.failed = (e = "err"),
                             !.pc = IF inv.op = "ClickByXY" /\ e = "nil" THEN "mouse" ELSE "done",
                             !.ret = IF inv.op = "ClickByXY" /\ e = "nil" THEN @ ELSE e]
    /\ UNCHANGED <<version, fe, obs, cn>>

\* part_000:116; cr.go:158: cdp.MouseClickXY
Mouse ==
    /\ inv.pc = "mouse"
    /\ \E ok \in BOOLEAN :
          inv' = [inv EXCEPT !.pc = "done", !.actions = @ + 1, !.failed = ~ok,
                             !.ret = IF ok THEN "nil" ELSE "err"]
    /\ UNCHANGED <<version, fe, obs, cn>>

\* part_000:155-165: ClickNode's own GetNodes call
ClickNodeGetNodes ==
    /\ inv.pc = "nodes"
    /\ \E n \in {-1} \cup (0 .. MaxNodes) :
          CASE n = -1 -> ClickNodeContinue("err")
            [] n = 0 -> ClickNodeContinue("ErrNotFound")
            [] n > 0 -> /\ cn' = [cn EXCEPT !.err = "nil", !.left = n]
                        /\ inv' = [inv EXCEPT !.pc = "click"]
                        /\ UNCHANGED <<fe, obs>>
    /\ UNCHANGED version

\* part_000:166-175: one cdp.MouseClickNode call of the loop over the nodes; after
\* the last node err is set to nil and the outer loop is left.
ClickNodeClick ==
    /\ inv.pc = "click"
    /\ \E ok \in BOOLEAN :
          LET left1 == cn.left - 1 IN
          /\ cn' = [cn EXCEPT !.left = left1,
                              !.err = IF left1 = 0 THEN "nil" ELSE IF ok THEN "nil" ELSE "err"]
          /\ inv' = [inv EXCEPT !.actions = @ + 1,
                                !.failed = @ \/ ~ok,
                                !.late = @ \/ inv.failed,
                                !.pc = IF left1 = 0 THEN "done" ELSE "click",
                                !.ret = IF left1 = 0 THEN "nil" ELSE @]
    /\ UNCHANGED <<version, fe, obs>>

PInit ==
    /\ version \in {"poll", "cr"}
    /\ inv = NoInvocation
    /\ fe = FindElementStart
    /\ obs = ObsStart("//a")
    /\ cn = CnStart

InitPoll == HInit /\ PInit /\ SIdle

NextPoll ==
    \/ Start /\ UNCHANGED <<hvars, svars>>
    \/ Lookup /\ UNCHANGED <<hvars, svars>>
    \/ FindReturn /\ UNCHANGED <<hvars, svars>>
    \/ Act /\ UNCHANGED <<hvars, svars>>
    \/ Eval /\ UNCHANGED <<hvars, svars>>
    \/ Mouse /\ UNCHANGED <<hvars, svars>>
    \/ ClickNodeGetNodes /\ UNCHANGED <<hvars, svars>>
    \/ ClickNodeClick /\ UNCHANGED <<hvars, svars>>

SpecPoll == InitPoll /\ [][NextPoll]_vars

(***************************************************************************)
(* Coordinate parsing (SpecParse): GetTopLeft's handling of the string the *)
(* injected script produced, and ClickByXY's use of what GetTopLeft        *)
(* returned.  A string is a sequence of characters.  A number is kept      *)
(* exactly, as an integer count of 10^-Precision pixels.                   *)
(***************************************************************************)

\* The strings the script may produce are at most MaxLen characters long.
MaxLen == 5

Chars == {"1", "5", "-", ".", ":", "a"}

Digits == {"1", "5"}

RECURSIVE StringsUpTo(_)
StringsUpTo(n) ==
    IF n = 0 THEN {<<>>}
    ELSE LET shorter == StringsUpTo(n - 1)
         IN shorter \cup {Append(t, c) : t \in {u \in shorter : Len(u) = n - 1}, c \in Chars}

Strings == StringsUpTo(MaxLen)

RECURSIVE Pow10(_)
Pow10(n) == IF n <= 0 THEN 1 ELSE 10 * Pow10(n - 1)

\* The digits kept after the point: a "top:left" string of MaxLen characters has
\* at most MaxLen - 2 of them in a part (one character is the point, one the colon).
Precision == MaxLen - 2

\* One pixel, in the unit numbers are kept in.
One == Pow10(Precision)

\* strings.Split(s, ":") (part_000:129; cr.go:167): the pieces between the colons,
\* one piece more than there are colons.
RECURSIVE SplitColon(_)
SplitColon(str) ==
    IF \A k \in 1 .. Len(str) : str[k] # ":"
       THEN <<str>>
       ELSE LET k == CHOOSE j \in 1 .. Len(str) :
                        str[j] = ":" /\ \A m \in 1 .. (j - 1) : str[m] # ":"
            IN <<SubSeq(str, 1, k - 1)>> \o SplitColon(SubSeq(str, k + 1, Len(str)))

DigitValue(c) == IF c = "1" THEN 1 ELSE 5

\* The value of a string of digits read as a decimal integer.
RECURSIVE Decimal(_)
Decimal(ds) ==
    IF ds = <<>> THEN 0
    ELSE 10 * Decimal(SubSeq(ds, 1, Len(ds) - 1)) + DigitValue(ds[Len(ds)])

\* strconv.ParseFloat(s, 64) (part_000:131, 136; cr.go:169, 174) on the strings
\* over Chars: an optional sign, then digits with at most one point among them and
\* at least one digit; anything else is a syntax error.
ParseFloat(str) ==
    LET neg == Len(str) > 0 /\ str[1] = "-"
        body == IF neg THEN SubSeq(str, 2, Len(str)) ELSE str
        points == {k \in 1 .. Len(body) : body[k] = "."}
        digitsAt == {k \in 1 .. Len(body) : body[k] \in Digits}
        wellFormed == /\ \A k \in 1 .. Len(body) : body[k] \in Digits \cup {"."}
                      /\ Cardinality(points) <= 1
                      /\ digitsAt # {}
        point == IF points = {} THEN Len(body) + 1 ELSE CHOOSE k \in points : TRUE
        whole == SubSeq(body, 1, point - 1)
        frac == SubSeq(body, point + 1, Len(body))
        magnitude == Decimal(whole) * One + Decimal(frac) * Pow10(Precision - Len(frac))
    IN IF wellFormed
          THEN [ok |-> TRUE, val |-> IF neg THEN 0 - magnitude ELSE magnitude]
          ELSE [ok |-> FALSE, val |-> 0]

\* int64(f): the conversion drops the fraction, towards zero.
Int64(f) == IF f >= 0 THEN (f \div One) * One ELSE 0 - (((0 - f) \div One) * One)

\* The coordinate returned for the parsed value: top + 1 in cr.go:180,
\* int64(top) + 1 in part_000:143.
Coordinate(v, f) == IF v = "poll" THEN Int64(f) + One ELSE f + One

\* GetTopLeft with the two parts taken the other way round.
GetTopLeftResultSwapped(v, str, evalFailed) ==
    LET parts == SplitColon(str) IN
    IF Len(parts) = 2
       THEN LET top == ParseFloat(parts[2])
                left == ParseFloat(parts[1])
            IN IF ~top.ok \/ ~left.ok
                  THEN [top |-> 0, left |-> 0, err |-> "parseErr"]
                  ELSE [top |-> Coordinate(v, top.val), left |-> Coordinate(v, left.val),
                        err |-> "nil"]
       ELSE [top |-> Coordinate(v, 0), left |-> Coordinate(v, 0),
             err |-> IF evalFailed THEN "err" ELSE "nil"]

\* part_000:129-143; cr.go:167-180: what GetTopLeft returns given the string and
\* whether cdp.Evaluate failed.  The two ParseFloat calls run only when the split
\* gives two parts; otherwise top and left stay 0 and err is the one of Evaluate.
GetTopLeftResult(v, str, evalFailed) ==
    LET parts == SplitColon(str) IN
    IF Len(parts) = 2
       THEN LET top == ParseFloat(parts[1])
                left == ParseFloat(parts[2])
            IN IF ~top.ok \/ ~left.ok
                  THEN [top |-> 0, left |-> 0, err |-> "parseErr"]
                  ELSE [top |-> Coordinate(v, top.val), left |-> Coordinate(v, left.val),
                        err |-> "nil"]
       ELSE [top |-> Coordinate(v, 0), left |-> Coordinate(v, 0),
             err |-> IF evalFailed THEN "err" ELSE "nil"]

\* part_000:126-143; cr.go:164-180
GetTopLeft ==
    /\ ppc = "eval"
    /\ gtl' = GetTopLeftResult(version, result, evalErr)
    /\ ppc' = "parsed"
    /\ UNCHANGED <<version, result, evalErr, click>>

\* part_000:111-116; cr.go:154-158: ClickByXY returns GetTopLeft's error, or
\* issues cdp.MouseClickXY(x, y) with what GetTopLeft returned.
ClickByXY ==
    /\ ppc = "parsed"
    /\ click' = IF gtl.err # "nil" THEN <<>> ELSE <<[x |-> gtl.top, y |-> gtl.left]>>
    /\ ppc' = "done"
    /\ UNCHANGED <<version, result, evalErr, gtl>>

\* cdp.Evaluate has run: it failed and left result empty, or it produced a string.
InitParse ==
    /\ HInit
    /\ version \in {"poll", "cr"}
    /\ inv = [op |-> "idle"]
    /\ fe = [ret |-> "none"]
    /\ obs = [lookups |-> 0]
    /\ cn = [i |-> 0]
    /\ evalErr \in BOOLEAN
    /\ result \in (IF evalErr THEN {<<>>} ELSE Strings)
    /\ gtl = [top |-> 0, left |-> 0, err |-> "none"]
    /\ click = <<>>
    /\ ppc = "eval"

NextParse ==
    \/ GetTopLeft /\ UNCHANGED <<hvars, inv, fe, obs, cn>>
    \/ ClickByXY /\ UNCHANGED <<hvars, inv, fe, obs, cn>>

SpecParse == InitParse /\ [][NextParse]_vars

(***************************************************************************)
(* Claims about the handle (checked under Spec).                           *)
(***************************************************************************)

\* C4 (as stated): a handle New returned without error is valid until Close: while
\* it is open its context b.ctx is not done (neither cancelled nor past a deadline);
\* once closed the context is done and every driver call made after that fails.
HandleValidUntilClose ==
    /\ phase = "open" => ~CtxDone
    /\ phase = "closed" => CtxDone

\* C8 (as stated): every driver call of every operation runs under a context whose
\* deadline is derived from the handle's timeout at the time of the call, so it
\* waits at most that long.
EveryCallBoundedByTimeout ==
    lastCall.op # "none" =>
        /\ lastCall.wrapped
        /\ lastCall.budget = lastCall.tmo
        /\ lastCall.until - lastCall.at <= lastCall.tmo

\* C8 (amended): the driver call of GetNodes, and so of FindElement, runs under a
\* context derived from b.ctx with the handle's timeout at the time of the call, so
\* it waits at most that long; the driver call of every other operation runs under
\* b.ctx itself, whose only deadline is the one New set.
OnlyNodeLookupBoundedByTimeout ==
    /\ lastCall.op \in NodeOps =>
          /\ lastCall.wrapped
          /\ lastCall.budget = lastCall.tmo
          /\ lastCall.until - lastCall.at <= lastCall.tmo
          /\ lastCall.until <= deadline
    /\ lastCall.op \notin NodeOps \cup {"none"} =>
          /\ ~lastCall.wrapped
          /\ lastCall.until = deadline

\* C8 witness: after SetTimeout(1.5s), GetNodes ran under a 1.5s budget.
NodeLookupUnderSetTimeout ==
    /\ lastCall.op = "GetNodes"
    /\ requested = [set |-> TRUE, d |-> 1500]
    /\ lastCall.wrapped
    /\ lastCall.budget = 1500

\* C10: a handle starts with timeout 5s; SetTimeout(d) sets it to max(d, 1s) and
\* changes no other field; nothing else changes it; so the timeout of a handle is
\* never below 1s and every GetNodes call is given a budget of at least 1s.
TimeoutNeverBelowMinimum ==
    /\ [](phase # "none" =>
            /\ timeout >= 1000
            /\ timeout = IF requested.set
                            THEN (IF requested.d > 1000 THEN requested.d ELSE 1000)
                            ELSE 5000)
    /\ [](lastCall.wrapped => lastCall.budget >= 1000)
    /\ [][phase # "none" /\ timeout' # timeout =>
            /\ requested'.set
            /\ UNCHANGED <<phase, deadline, cancelled, lastCall>>]_vars

\* C10 witness: SetTimeout was called with less than 1s, the timeout is 1s, and a
\* GetNodes call then ran with a budget of 1s.
TimeoutClampedAndUsed ==
    /\ requested.set
    /\ requested.d < 1000
    /\ timeout = 1000
    /\ lastCall.op = "GetNodes"
    /\ lastCall.budget = 1000

(***************************************************************************)
(* Claims about the operations' control flow (checked under SpecPoll).     *)
(***************************************************************************)

RECURSIVE Pow2(_)
Pow2(n) == IF n <= 0 THEN 1 ELSE 2 * Pow2(n - 1)

\* C1: when attempt k of a FindElement call returns nodes, whatever the attempts
\* before it returned (errors or no node), k is within the 8 attempts, FindElement
\* returns nil, and no lookup is issued after attempt k.
PresentElementFound ==
    obs.foundAt > 0 =>
        /\ obs.foundAt <= 8
        /\ fe.ret = "nil"
        /\ obs.lookups = obs.foundAt

\* C1 witness: the polling FindElement returned nil at its 8th attempt, after
\* attempts that returned errors and attempts that returned no node.
FoundAtLastAttempt ==
    /\ version = "poll"
    /\ fe.ret = "nil"
    /\ obs.foundAt = 8
    /\ obs.errs > 0
    /\ obs.errs < 7

BackoffDoublesAfterEveryFailure ==
    (version = "poll" /\ obs.lookups >= 1) =>
        /\ obs.lastWait = 100 * Pow2(obs.lookups - 1)
        /\ obs.lookups <= 8
        /\ obs.slept <= 25500

\* C7 (as stated): a driver call that is not an element lookup and returns an error
\* makes the operation return a non-nil error, and no driver call follows it.
FailuresPropagateImmediately ==
    /\ (inv.pc = "done" /\ inv.failed) => inv.ret # "nil"
    /\ ~inv.late

\* C9: in the polling version SendKeys, Click, GetAttributes, GetTopLeft and
\* ClickByXY issue their driver action only after a FindElement call on the same
\* XPath returned nil; when FindElement returns an error the operation returns that
\* error and issues no driver action.
ActionsGatedOnFindElement ==
    (version = "poll" /\ inv.op \in Gated) =>
        /\ (inv.actions > 0 \/ inv.pc \in {"act", "eval", "mouse"}) =>
              /\ inv.finds >= 1
              /\ fe.ret = "nil"
              /\ obs.xpath = inv.xpath
        /\ (inv.pc = "done" /\ fe.ret # "nil") =>
              /\ inv.ret = fe.ret
              /\ inv.actions = 0

\* C9 witness: ClickByXY went through FindElement twice (its own call and the one
\* of GetTopLeft), evaluated the script and clicked.
ClickByXYAfterFinds ==
    /\ version = "poll"
    /\ inv.op = "ClickByXY"
    /\ inv.pc = "done"
    /\ inv.finds = 2
    /\ inv.actions = 2
    /\ inv.ret = "nil"

(***************************************************************************)
(* Claims about coordinate parsing (checked under SpecParse).              *)
(***************************************************************************)

\* The string has the form "number:number".
IsTopLeft(str) ==
    /\ Len(SplitColon(str)) = 2
    /\ ParseFloat(SplitColon(str)[1]).ok
    /\ ParseFloat(SplitColon(str)[2]).ok

TopOf(str) == ParseFloat(SplitColon(str)[1]).val
LeftOf(str) == ParseFloat(SplitColon(str)[2]).val

\* C5 (as stated): when the script evaluates without error to "top:left" with two
\* numbers, GetTopLeft returns (top + 1, left + 1) and a nil error, in both
\* versions, for negative and fractional values too.
ParsedPairIsInputPlusOne ==
    (ppc # "eval" /\ ~evalErr /\ IsTopLeft(result)) =>
        /\ gtl.err = "nil"
        /\ gtl.top = TopOf(result) + One
        /\ gtl.left = LeftOf(result) + One

\* C5 (amended): when the script evaluates without error to "top:left" with two
\* numbers, GetTopLeft returns a nil error and, first from the part before the
\* colon and second from the part after it, (top + 1, left + 1) in the float64
\* version (cr.go) and (int64(top) + 1, int64(left) + 1) in the int64 version
\* (part_000), the fraction of each value dropped towards zero before the 1 is added.
ParsedPairPerVersion ==
    (ppc # "eval" /\ ~evalErr /\ IsTopLeft(result)) =>
        /\ gtl.err = "nil"
        /\ version = "cr" =>
              /\ gtl.top = TopOf(result) + One
              /\ gtl.left = LeftOf(result) + One
        /\ version = "poll" =>
              /\ gtl.top % One = 0
              /\ gtl.left % One = 0
              /\ gtl.top - One \in
                    IF TopOf(result) >= 0
                       THEN (TopOf(result) - One + 1) .. TopOf(result)
                       ELSE TopOf(result) .. (TopOf(result) + One - 1)
              /\ gtl.left - One \in
                    IF LeftOf(result) >= 0
                       THEN (LeftOf(result) - One + 1) .. LeftOf(result)
                       ELSE LeftOf(result) .. (LeftOf(result) + One - 1)

\* C5 witness: the int64 version parsed "-.5:1" into (1, 2): -0.5 became 0, then 1.
NegativeFractionTruncated ==
    /\ version = "poll"
    /\ result = <<"-", ".", "5", ":", "1">>
    /\ ~evalErr
    /\ ppc = "parsed"
    /\ gtl = [top |-> One, left |-> 2 * One, err |-> "nil"]

\* C6 (as stated): when the string the script produced is not "number:number",
\* GetTopLeft returns a non-nil error, and ClickByXY returns it without a mouse click.
MalformedYieldsError ==
    (ppc # "eval" /\ ~IsTopLeft(result)) =>
        /\ gtl.err # "nil"
        /\ ppc = "done" => click = <<>>

====
